---- MODULE Spec2Model ----
(***************************************************************************)
(* Model of src/fetch.py: the retry decorator around                       *)
(* GitHubClient.execute_query, the generic cursor paginator of             *)
(* GitHubDataFetcher, and the nested review walk of fetch_user_reviews.    *)
(***************************************************************************)
EXTENDS Integers, Sequences, FiniteSets, TLC

(***************************************************************************)
(* Bounds of the model                                                     *)
(***************************************************************************)
\* largest max_retries handed to retry_on_error (the default 3 is included)
MaxRetriesBound == 4
\* number of remote pages besides the first one that a cursor can name
NumCursors == 2
\* largest max_pages handed to _paginate_results
MaxPagesBound == 3
\* longest result list of the remote review search
MaxSearch == 3
\* largest number of reviews of one pull request
MaxReviews == 2
\* pull requests per page of the review search in the model (25 in REVIEWS_QUERY)
OuterPageSize == 2
\* reviews per review page in the model (100 in REVIEWS_QUERY)
ReviewPageSize == 1
\* largest number of members of the roster
MaxMembers == 2
\* longest list of pull requests of mixed shapes given to the summary
MaxPrs == 4
\* longest list of reviewed pull requests of mixed shapes
MaxReviewed == 3
\* longest list ranked by the summary (one more than it keeps)
MaxRankLen == 11
\* most reviews in one export, over both pull requests
MaxExportReviews == 2
\* most reviews of one pull request with many review pages
MaxDeepReviews == 12
\* most comments of one exported review
MaxExportComments == 2

(***************************************************************************)
(* Program constants                                                       *)
(***************************************************************************)
DefaultMaxRetries == 3
DefaultRetryDelay == 2
\* max_pages of the review search walk
ReviewSearchMaxPages == 10

\* Python's None (a falsy cursor); real cursors are the positive numbers
None == 0

RECURSIVE SumSeq(_)
SumSeq(s) == IF s = <<>> THEN 0 ELSE Head(s) + SumSeq(Tail(s))

RECURSIVE Concat(_)
Concat(ss) == IF ss = <<>> THEN <<>> ELSE Head(ss) \o Concat(Tail(ss))

SeqRange(s) == {s[i] : i \in 1..Len(s)}

NoDuplicates(s) == \A i, j \in 1..Len(s) : i # j => s[i] # s[j]

Min(a, b) == IF a <= b THEN a ELSE b

VARIABLES
    \* ---- retry_on_error around execute_query / validate_and_connect ----
    wrappedFunc,    \* which decorated method is called
    max_retries,    \* decorator argument
    retry_delay,    \* decorator argument
    script,         \* what client.execute does on its 1st, 2nd, ... call
    rPc,            \* "loop" | "except" | "done"
    retries,        \* the wrapper's local counter
    calls,          \* number of invocations of the wrapped function so far
    raisedExc,      \* exception class raised by the last invocation
    sleeps,         \* arguments of time.sleep, in order
    result,         \* how the wrapper ended
    \* ---- _paginate_results ----
    pageTable,      \* the remote: cursor -> [has_next, next_cursor]
    max_pages,
    pgPc,           \* "loop" | "done"
    results,
    has_next_page,
    cursor,
    page,
    received,       \* cursors query_func was called with, in order
    returned,       \* next_cursor values query_func returned, in order
    \* ---- the remote repository seen by the review search ----
    searchList,     \* URLs of the pull requests the search matches, in order
    prAuthor,       \* URL -> author login
    prReviews,      \* URL -> the reviews of the pull request, in order
    \* ---- fetch_user_reviews / _process_pr_reviews ----
    fPc,            \* "paginate" | "nodes" | "inner" | "add" | "done" |
                    \* "raised" (GitHubAPIError) | "crashed" (AttributeError)
    reviews_by_pr,  \* the accumulation map, in insertion order
    curNodes,       \* result['search']['nodes'] of the current outer page
    curPageInfo,    \* result['search']['pageInfo'] of the current outer page
    nodeIdx,        \* position of the for loop over curNodes
    pr,             \* _process_pr_reviews' local pr
    reviews_cursor,
    has_more_reviews,
    author_reviews,
    revIdx,         \* position of the for loop over author_reviews
    queries,        \* number of execute_query calls of the run
    \* ---- CodeReviewAnalyzer.main ----
    mArgs,          \* the parsed command line and the roster file it names
    mPc,            \* position in main
    mTodo,          \* roster members the summary loop has still to process
    mRaised,        \* class of the exception raised inside the try block
    completed,      \* stages of main that returned normally
    netCalls,       \* remote calls made by the run, in order
    exitCode,       \* value main returned, -1 while it runs
    \* ---- ActivityAnalyzer.generate_member_summary ----
    sPrs,           \* argument prs: the GitHubPR dicts of the member
    sReviews,       \* argument reviews: the PRWithReviews of the member
    sPc,            \* "call" | "returned"
    summary,        \* the TeamMemberSummary returned
    \* ---- DataExporter.export_reviews_to_csv ----
    xReviews,       \* argument reviews: the PRWithReviews to export
    xPc,            \* "call" | "written" | "raised"
    rows            \* the data rows written after the header

retryVars == <<wrappedFunc, max_retries, retry_delay, script, rPc, retries, calls,
               raisedExc, sleeps, result>>
pageVars  == <<pageTable, max_pages, pgPc, results, has_next_page, cursor,
               page, received, returned>>
remoteVars == <<searchList, prAuthor, prReviews>>
fetchVars == <<fPc, reviews_by_pr, curNodes, curPageInfo, nodeIdx, pr,
               reviews_cursor, has_more_reviews, author_reviews, revIdx, queries>>
mainVars == <<mArgs, mPc, mTodo, mRaised, completed, netCalls, exitCode>>
summaryVars == <<sPrs, sReviews, sPc, summary>>
exportVars == <<xReviews, xPc, rows>>
appVars == <<mainVars, summaryVars, exportVars>>
vars == <<retryVars, pageVars, remoteVars, fetchVars, appVars>>

(***************************************************************************)
(* retry_on_error and GitHubClient.execute_query                           *)
(***************************************************************************)
\* what self.client.execute(...) can do on one call
TransportOutcomes ==
    {"ok", "tqe_ratelimit", "tqe_other", "http403_ratelimit", "http_other"}

NoResult == [kind |-> "none", msg |-> "", n |-> 0]
Returned == [kind |-> "returned", msg |-> "", n |-> 0]
FailedAfter(n) == [kind |-> "GitHubAPIError", msg |-> "Failed after N retries", n |-> n]
Propagated(exc) == [kind |-> exc, msg |-> "propagated", n |-> 0]
Wrapped(msg) == [kind |-> "GitHubAPIError", msg |-> msg, n |-> 0]

\* execute_query with every transport query error classified as a rate limit
ExecuteQueryBodyAllRateLimit(outcome) ==
    CASE outcome = "ok"            -> "ok"
      [] outcome = "tqe_ratelimit" -> "RateLimitError"
      [] outcome = "tqe_other"     -> "RateLimitError"
      [] OTHER                     -> "GitHubAPIError"

\* body of execute_query: the exception class that leaves it ("ok": it returns)
ExecuteQueryBody(outcome) ==
    CASE outcome = "ok"            -> "ok"
      [] outcome = "tqe_ratelimit" -> "RateLimitError"
      [] outcome = "tqe_other"     -> "GitHubAPIError"
      [] OTHER                     -> "GitHubAPIError"   \* except Exception

\* what the identity request of _validate_token can do
ValidateOutcomes == {"ok", "status_not_200", "transport_error", "malformed_payload"}

\* body of validate_and_connect (_validate_token): a status other than 200
\* and an httpx.HTTPError become TokenValidationError; the KeyError of
\* response.json()['data']['viewer']['login'] is not caught
ValidateTokenBody(outcome) ==
    CASE outcome = "ok"                -> "ok"
      [] outcome = "status_not_200"    -> "TokenValidationError"
      [] outcome = "transport_error"   -> "TokenValidationError"
      [] outcome = "malformed_payload" -> "KeyError"

WrappedFuncs == {"execute_query", "validate_and_connect"}

OutcomesOf(func) ==
    IF func = "execute_query" THEN TransportOutcomes ELSE ValidateOutcomes

\* the decorated function the wrapper calls
WrappedBody(func, outcome) ==
    IF func = "execute_query"
      THEN ExecuteQueryBody(outcome)
      ELSE ValidateTokenBody(outcome)

\* the except clauses of wrapper, on the exception class that reached it
WrapperHandle(exc) ==
    CASE exc = "RateLimitError"                 -> "backoff"
      [] exc = "TransportQueryError_ratelimit"  -> "backoff"
      [] exc = "TransportQueryError"            -> "raise_api_error"
      [] exc = "HTTPStatusError_403_ratelimit"  -> "backoff"
      [] exc = "HTTPStatusError"                -> "raise_http_error"
      [] OTHER                                  -> "propagate"

\* a linear backoff in place of the exponential one
WaitTimeLinear(delay, n) == delay * (n + 1)

WaitTime(delay, n) == delay * (2 ^ n)

RetryIdle ==
    /\ wrappedFunc = "execute_query"
    /\ max_retries = DefaultMaxRetries
    /\ retry_delay = DefaultRetryDelay
    /\ script = <<>>
    /\ rPc = "done"
    /\ retries = 0
    /\ calls = 0
    /\ raisedExc = "ok"
    /\ sleeps = <<>>
    /\ result = NoResult

RetryInit ==
    /\ wrappedFunc \in WrappedFuncs
    /\ max_retries \in 1..MaxRetriesBound
    /\ retry_delay \in {1, DefaultRetryDelay}
    /\ script \in [1..(MaxRetriesBound + 1) -> OutcomesOf(wrappedFunc)]
    /\ rPc = "loop"
    /\ retries = 0
    /\ calls = 0
    /\ raisedExc = "ok"
    /\ sleeps = <<>>
    /\ result = NoResult

\* try: return func(*args, **kwargs)
RetryCall ==
    /\ rPc = "loop"
    /\ retries < max_retries
    /\ calls' = calls + 1
    /\ raisedExc' = WrappedBody(wrappedFunc, script[calls + 1])
    /\ IF raisedExc' = "ok"
         THEN /\ rPc' = "done"
              /\ result' = Returned
         ELSE /\ rPc' = "except"
              /\ result' = result
    /\ UNCHANGED <<wrappedFunc, max_retries, retry_delay, script, retries, sleeps>>
    /\ UNCHANGED <<pageVars, remoteVars, fetchVars, appVars>>

\* a rate-limit branch: sleep, count the retry, go round the loop
RetryBackoff ==
    /\ rPc = "except"
    /\ WrapperHandle(raisedExc) = "backoff"
    /\ sleeps' = Append(sleeps, WaitTime(retry_delay, retries))
    /\ retries' = retries + 1
    /\ rPc' = "loop"
    /\ UNCHANGED <<wrappedFunc, max_retries, retry_delay, script, calls, raisedExc, result>>
    /\ UNCHANGED <<pageVars, remoteVars, fetchVars, appVars>>

\* any other exception leaves the wrapper at once
RetryRaise ==
    /\ rPc = "except"
    /\ WrapperHandle(raisedExc) # "backoff"
    /\ result' = CASE WrapperHandle(raisedExc) = "raise_api_error"  -> Wrapped("GitHub API error")
                   [] WrapperHandle(raisedExc) = "raise_http_error" -> Wrapped("HTTP error")
                   [] OTHER -> Propagated(raisedExc)
    /\ rPc' = "done"
    /\ UNCHANGED <<wrappedFunc, max_retries, retry_delay, script, retries, calls, raisedExc, sleeps>>
    /\ UNCHANGED <<pageVars, remoteVars, fetchVars, appVars>>

\* raise GitHubAPIError(f"Failed after {max_retries} retries")
RetryExhausted ==
    /\ rPc = "loop"
    /\ retries >= max_retries
    /\ result' = FailedAfter(max_retries)
    /\ rPc' = "done"
    /\ UNCHANGED <<wrappedFunc, max_retries, retry_delay, script, retries, calls, raisedExc, sleeps>>
    /\ UNCHANGED <<pageVars, remoteVars, fetchVars, appVars>>

(***************************************************************************)
(* GitHubDataFetcher._paginate_results over fetch_user_prs.query_page      *)
(***************************************************************************)
Cursors == 0..NumCursors

\* the items of the remote page a cursor names (two per page, all distinct)
PageItems(c) == <<2 * c + 1, 2 * c + 2>>

\* a query_page that never sends "after"
QueryPageNoAfter(c) ==
    [items |-> PageItems(None),
     has_next |-> pageTable[None].has_next,
     next_cursor |-> pageTable[None].next_cursor]

\* fetch_user_prs.query_page: "after" is only sent for a truthy cursor
QueryPage(c) ==
    LET pos == IF c # None THEN c ELSE None
    IN  [items |-> PageItems(pos),
         has_next |-> pageTable[pos].has_next,
         next_cursor |-> pageTable[pos].next_cursor]

\* the loop condition with the cap off by one
PaginateContinueStrict(hn, pg, mp) == hn /\ pg < mp

\* while has_next_page and page <= max_pages
PaginateContinue(hn, pg, mp) == hn /\ pg <= mp

PageIdle ==
    /\ pageTable = [c \in Cursors |-> [has_next |-> FALSE, next_cursor |-> None]]
    /\ max_pages = 1
    /\ pgPc = "done"
    /\ results = <<>>
    /\ has_next_page = TRUE
    /\ cursor = None
    /\ page = 1
    /\ received = <<>>
    /\ returned = <<>>

PageInit ==
    /\ pageTable \in [Cursors -> [has_next : BOOLEAN, next_cursor : Cursors]]
    /\ max_pages \in 1..MaxPagesBound
    /\ pgPc = "loop"
    /\ results = <<>>
    /\ has_next_page = TRUE
    /\ cursor = None
    /\ page = 1
    /\ received = <<>>
    /\ returned = <<>>

\* one iteration of the while loop
PaginateStep ==
    /\ pgPc = "loop"
    /\ PaginateContinue(has_next_page, page, max_pages)
    /\ LET r == QueryPage(cursor)
       IN  /\ received' = Append(received, cursor)
           /\ returned' = Append(returned, r.next_cursor)
           /\ results' = results \o r.items
           /\ has_next_page' = r.has_next
           /\ cursor' = r.next_cursor
    /\ page' = page + 1
    /\ UNCHANGED <<pageTable, max_pages, pgPc>>
    /\ UNCHANGED <<retryVars, remoteVars, fetchVars, appVars>>

\* return results
PaginateReturn ==
    /\ pgPc = "loop"
    /\ ~PaginateContinue(has_next_page, page, max_pages)
    /\ pgPc' = "done"
    /\ UNCHANGED <<pageTable, max_pages, results, has_next_page, cursor, page,
                   received, returned>>
    /\ UNCHANGED <<retryVars, remoteVars, fetchVars, appVars>>

(***************************************************************************)
(* The remote repository answering REVIEWS_QUERY                           *)
(***************************************************************************)
\* github_username, the user whose reviews are fetched, and another login
U == "u"
V == "v"
Logins == {U, V}

Urls == {"url_a", "url_b"}
FirstUrl == "url_a"

\* what one review of the remote looks like: its author, whether createdAt
\* parses, comments.totalCount, and for each fetched comment node whether
\* its createdAt parses (totalCount may exceed the fetched nodes)
ReviewShapes ==
    { [author |-> U, createdAt |-> "ok",  totalCount |-> 3, comments |-> <<"ok", "bad">>],
      [author |-> U, createdAt |-> "bad", totalCount |-> 1, comments |-> <<"ok">>],
      [author |-> V, createdAt |-> "ok",  totalCount |-> 1, comments |-> <<"ok">>] }

\* reviews of the user with a null createdAt, on the review itself or on
\* one of its comment nodes
NullShapes ==
    { [author |-> U, createdAt |-> "null", totalCount |-> 1, comments |-> <<"ok">>],
      [author |-> U, createdAt |-> "ok",   totalCount |-> 1, comments |-> <<"null">>] }

SeqsUpTo(S, n) == UNION {[1..k -> S] : k \in 0..n}

\* reviews(first: 100, after: $reviewsAfter) of one pull request; a cursor
\* is the position of the last review it was returned with
RemoteReviews(url, after) ==
    LET all == prReviews[url]
        lo == after + 1
        hi == Min(after + ReviewPageSize, Len(all))
    IN  [nodes |-> [i \in 1..(hi - lo + 1) |->
                      [url |-> url, idx |-> lo + i - 1,
                       author |-> all[lo + i - 1].author,
                       createdAt |-> all[lo + i - 1].createdAt,
                       totalCount |-> all[lo + i - 1].totalCount,
                       comments |-> all[lo + i - 1].comments]],
         has_next |-> hi < Len(all),
         end_cursor |-> IF hi >= lo THEN hi ELSE None]

\* search(query: $searchQuery, first: 25, after: $after): $reviewsAfter is
\* one variable of the query and applies to the reviews of every node
RemoteSearch(after, reviewsAfter) ==
    LET lo == after + 1
        hi == Min(after + OuterPageSize, Len(searchList))
    IN  [nodes |-> [i \in 1..(hi - lo + 1) |->
                      [url |-> searchList[lo + i - 1],
                       author |-> prAuthor[searchList[lo + i - 1]],
                       reviews |-> RemoteReviews(searchList[lo + i - 1], reviewsAfter)]],
         has_next |-> hi < Len(searchList),
         end_cursor |-> IF hi >= lo THEN hi ELSE None]

(***************************************************************************)
(* GitHubDataFetcher.fetch_user_reviews                                    *)
(***************************************************************************)
NoPR == [url |-> "", author |-> "",
         reviews |-> [nodes |-> <<>>, has_next |-> FALSE, end_cursor |-> None]]
NoPageInfo == [has_next |-> FALSE, end_cursor |-> None]

\* position of the entry of a URL in the accumulation map, 0 when absent
EntryIndex(rbp, url) ==
    IF \E i \in 1..Len(rbp) : rbp[i].url = url
      THEN CHOOSE i \in 1..Len(rbp) : rbp[i].url = url
      ELSE 0

\* PRWithReviews(title=..., url=pr_url)
NewEntry(url) == [url |-> url, reviews |-> <<>>, total_comments |-> 0]

\* an assignment of a fresh PRWithReviews whether or not the URL is present
EnsureEntryOverwrite(rbp, url) ==
    IF EntryIndex(rbp, url) = 0
      THEN Append(rbp, NewEntry(url))
      ELSE [rbp EXCEPT ![EntryIndex(rbp, url)] = NewEntry(url)]

\* if pr_url not in reviews_by_pr: reviews_by_pr[pr_url] = PRWithReviews(...)
EnsureEntry(rbp, url) ==
    IF EntryIndex(rbp, url) = 0 THEN Append(rbp, NewEntry(url)) ELSE rbp

\* the comments of a review that are converted without a ValueError
ParsedComments(review) == SelectSeq(review.comments, LAMBDA c : c = "ok")

\* _add_review_to_pr adding the number of converted comments to the total
AddReviewToPrLenComments(review, entry) ==
    IF review.createdAt = "ok"
      THEN [entry EXCEPT
              !.reviews = Append(@, [url |-> review.url, idx |-> review.idx,
                                     comment_count |-> review.totalCount,
                                     comments |-> ParsedComments(review)]),
              !.total_comments = @ + Len(ParsedComments(review))]
      ELSE entry

\* _add_review_to_pr: a review whose createdAt does not parse is skipped
AddReviewToPr(review, entry) ==
    IF review.createdAt = "ok"
      THEN [entry EXCEPT
              !.reviews = Append(@, [url |-> review.url, idx |-> review.idx,
                                     comment_count |-> review.totalCount,
                                     comments |-> ParsedComments(review)]),
              !.total_comments = @ + review.totalCount]
      ELSE entry

\* _add_review_to_pr lets an exception out: None.replace(...) raises
\* AttributeError, which `except (ValueError, KeyError)` does not catch
AddReviewEscapes(review) ==
    \/ \E k \in 1..Len(review.comments) : review.comments[k] = "null"
    \/ review.createdAt = "null"

\* the list comprehension selecting the user's reviews of the current page
AuthorReviews(p) == SelectSeq(p.reviews.nodes, LAMBDA r : r.author = U)

FetchIdle ==
    /\ searchList = <<>>
    /\ prAuthor = [u \in Urls |-> V]
    /\ prReviews = [u \in Urls |-> <<>>]
    /\ fPc = "done"
    /\ reviews_by_pr = <<>>
    /\ curNodes = <<>>
    /\ curPageInfo = NoPageInfo
    /\ nodeIdx = 1
    /\ pr = NoPR
    /\ reviews_cursor = None
    /\ has_more_reviews = FALSE
    /\ author_reviews = <<>>
    /\ revIdx = 1
    /\ queries = 0

\* the locals of fetch_user_reviews and of the walk when the call begins
FetchStart ==
    /\ fPc = "paginate"
    /\ reviews_by_pr = <<>>
    /\ curNodes = <<>>
    /\ curPageInfo = NoPageInfo
    /\ nodeIdx = 1
    /\ pr = NoPR
    /\ reviews_cursor = None
    /\ has_more_reviews = FALSE
    /\ author_reviews = <<>>
    /\ revIdx = 1
    /\ queries = 0
    \* _paginate_results(query_page, max_pages=10)
    /\ pageTable = [c \in Cursors |-> [has_next |-> FALSE, next_cursor |-> None]]
    /\ max_pages = ReviewSearchMaxPages
    /\ pgPc = "loop"
    /\ results = <<>>
    /\ has_next_page = TRUE
    /\ cursor = None
    /\ page = 1
    /\ received = <<>>
    /\ returned = <<>>

\* the URLs are interchangeable, so the first match is FirstUrl; a pull
\* request the search does not match is never seen and is left without data
FetchInitOver(shapes) ==
    /\ searchList \in SeqsUpTo(Urls, MaxSearch) \ {<<>>}
    /\ searchList[1] = FirstUrl
    /\ prAuthor \in [Urls -> Logins]
    /\ prReviews \in [Urls -> SeqsUpTo(shapes, MaxReviews)]
    /\ \A u \in Urls \ SeqRange(searchList) : prAuthor[u] = V /\ prReviews[u] = <<>>
    /\ FetchStart

\* a remote whose records have every field set
FetchInit == FetchInitOver(ReviewShapes)

\* a remote that may also hold records with a null createdAt
FetchInitMalformed == FetchInitOver(ReviewShapes \cup NullShapes)

\* the review shapes whose createdAt parses
DeepShapes == {s \in ReviewShapes : s.createdAt = "ok"}

\* review lists of one shape: none, two, or MaxDeepReviews reviews
DeepReviews ==
    {[i \in 1..n |-> s] : n \in {0, 2, MaxDeepReviews}, s \in DeepShapes}

\* the two pull requests in turn, one more than ten pages hold
LongSearchList ==
    [i \in 1..(ReviewSearchMaxPages * OuterPageSize + 1) |->
        IF i % 2 = 1 THEN FirstUrl ELSE CHOOSE u \in Urls : u # FirstUrl]

\* a remote with pull requests of many review pages, or with a search
\* result of more pages than the walk follows
FetchInitDeep ==
    /\ prAuthor \in [Urls -> Logins]
    /\ \/ /\ searchList \in {SubSeq(LongSearchList, 1, n) : n \in 1..2}
          /\ prReviews \in [Urls -> DeepReviews]
       \/ /\ searchList = LongSearchList
          /\ prReviews \in [Urls -> SeqsUpTo(DeepShapes, 1)]
    /\ \A u \in Urls \ SeqRange(searchList) : prAuthor[u] = V /\ prReviews[u] = <<>>
    /\ FetchStart

\* _paginate_results calls query_page(cursor), which runs the outer query
FetchQueryPage ==
    /\ fPc = "paginate"
    /\ PaginateContinue(has_next_page, page, max_pages)
    /\ LET r == RemoteSearch(IF cursor # None THEN cursor ELSE None, None)
       IN  /\ curNodes' = r.nodes
           /\ curPageInfo' = [has_next |-> r.has_next, end_cursor |-> r.end_cursor]
    /\ received' = Append(received, cursor)
    /\ queries' = queries + 1
    /\ nodeIdx' = 1
    /\ fPc' = "nodes"
    /\ UNCHANGED <<reviews_by_pr, pr, reviews_cursor, has_more_reviews,
                   author_reviews, revIdx>>
    /\ UNCHANGED <<pageTable, max_pages, pgPc, results, has_next_page, cursor,
                   page, returned>>
    /\ UNCHANGED <<retryVars, remoteVars, appVars>>

\* for pr in result['search']['nodes']: _process_pr_reviews(pr, ...) up to
\* the while loop; a pull request of the user is skipped
ProcessPrReviews ==
    /\ fPc = "nodes"
    /\ nodeIdx <= Len(curNodes)
    /\ IF curNodes[nodeIdx].author = U
         THEN /\ nodeIdx' = nodeIdx + 1
              /\ UNCHANGED <<fPc, pr, reviews_cursor, has_more_reviews>>
         ELSE /\ pr' = curNodes[nodeIdx]
              /\ reviews_cursor' = None
              /\ has_more_reviews' = TRUE
              /\ fPc' = "inner"
              /\ UNCHANGED nodeIdx
    /\ UNCHANGED <<reviews_by_pr, curNodes, curPageInfo, author_reviews, revIdx, queries>>
    /\ UNCHANGED <<retryVars, pageVars, remoteVars, appVars>>

\* top of the while loop: the follow-up query when reviews_cursor is set,
\* then the selection of the user's reviews and the creation of the entry
InnerReviewPage ==
    /\ fPc = "inner"
    /\ has_more_reviews
    /\ IF reviews_cursor # None
         THEN /\ pr' = RemoteSearch(cursor, reviews_cursor).nodes[1]
              /\ queries' = queries + 1
         ELSE UNCHANGED <<pr, queries>>
    /\ author_reviews' = AuthorReviews(pr')
    /\ reviews_by_pr' = IF author_reviews' # <<>>
                          THEN EnsureEntry(reviews_by_pr, pr'.url)
                          ELSE reviews_by_pr
    /\ revIdx' = 1
    /\ fPc' = "add"
    /\ UNCHANGED <<curNodes, curPageInfo, nodeIdx, reviews_cursor, has_more_reviews>>
    /\ UNCHANGED <<retryVars, pageVars, remoteVars, appVars>>

\* for review in author_reviews: _add_review_to_pr(review, ..., reviews_by_pr[pr_url])
AddReview ==
    /\ fPc = "add"
    /\ revIdx <= Len(author_reviews)
    /\ IF AddReviewEscapes(author_reviews[revIdx])
         THEN /\ fPc' = "crashed"
              /\ UNCHANGED <<reviews_by_pr, revIdx>>
         ELSE /\ LET i == EntryIndex(reviews_by_pr, pr.url)
                 IN  reviews_by_pr' =
                       [reviews_by_pr EXCEPT
                          ![i] = AddReviewToPr(author_reviews[revIdx], @)]
              /\ revIdx' = revIdx + 1
              /\ UNCHANGED fPc
    /\ UNCHANGED <<curNodes, curPageInfo, nodeIdx, pr, reviews_cursor,
                   has_more_reviews, author_reviews, queries>>
    /\ UNCHANGED <<retryVars, pageVars, remoteVars, appVars>>

\* bottom of the while loop: read the review pageInfo of the current pr
ReviewPageInfo ==
    /\ fPc = "add"
    /\ revIdx > Len(author_reviews)
    /\ has_more_reviews' = pr.reviews.has_next
    /\ reviews_cursor' = pr.reviews.end_cursor
    /\ fPc' = "inner"
    /\ UNCHANGED <<reviews_by_pr, curNodes, curPageInfo, nodeIdx, pr,
                   author_reviews, revIdx, queries>>
    /\ UNCHANGED <<retryVars, pageVars, remoteVars, appVars>>

\* the while loop ends; _process_pr_reviews returns to the for loop
ProcessPrDone ==
    /\ fPc = "inner"
    /\ ~has_more_reviews
    /\ nodeIdx' = nodeIdx + 1
    /\ fPc' = "nodes"
    /\ UNCHANGED <<reviews_by_pr, curNodes, curPageInfo, pr, reviews_cursor,
                   has_more_reviews, author_reviews, revIdx, queries>>
    /\ UNCHANGED <<retryVars, pageVars, remoteVars, appVars>>

\* query_page returns (nodes, hasNextPage, endCursor) to _paginate_results
QueryPageReturn ==
    /\ fPc = "nodes"
    /\ nodeIdx > Len(curNodes)
    /\ results' = results \o [i \in 1..Len(curNodes) |-> curNodes[i].url]
    /\ has_next_page' = curPageInfo.has_next
    /\ cursor' = curPageInfo.end_cursor
    /\ returned' = Append(returned, curPageInfo.end_cursor)
    /\ page' = page + 1
    /\ fPc' = "paginate"
    /\ UNCHANGED <<pageTable, max_pages, pgPc, received>>
    /\ UNCHANGED <<reviews_by_pr, curNodes, curPageInfo, nodeIdx, pr, reviews_cursor,
                   has_more_reviews, author_reviews, revIdx, queries>>
    /\ UNCHANGED <<retryVars, remoteVars, appVars>>

\* return list(reviews_by_pr.values())
FetchReturn ==
    /\ fPc = "paginate"
    /\ ~PaginateContinue(has_next_page, page, max_pages)
    /\ fPc' = "done"
    /\ pgPc' = "done"
    /\ UNCHANGED <<pageTable, max_pages, results, has_next_page, cursor, page,
                   received, returned>>
    /\ UNCHANGED <<reviews_by_pr, curNodes, curPageInfo, nodeIdx, pr, reviews_cursor,
                   has_more_reviews, author_reviews, revIdx, queries>>
    /\ UNCHANGED <<retryVars, remoteVars, appVars>>

\* execute_query raises GitHubAPIError, which no frame of the fetch catches
QueryRaises ==
    /\ \/ fPc = "paginate" /\ PaginateContinue(has_next_page, page, max_pages)
       \/ fPc = "inner" /\ has_more_reviews /\ reviews_cursor # None
    /\ queries' = queries + 1
    /\ fPc' = "raised"
    /\ UNCHANGED <<reviews_by_pr, curNodes, curPageInfo, nodeIdx, pr, reviews_cursor,
                   has_more_reviews, author_reviews, revIdx>>
    /\ UNCHANGED <<retryVars, pageVars, remoteVars, appVars>>

(***************************************************************************)
(* CodeReviewAnalyzer.main and the two subcommands                         *)
(***************************************************************************)
\* what the file named by --team-file holds
RosterKinds == {"ok", "missing_github", "missing_name", "no_file"}

\* the command lines argparse accepts: --user is required by `reviews`
ArgSets ==
    { a \in [command : {"reviews", "summary"},
             user    : {"known", "unknown", "none"},
             repo    : {"owner/repo", "bad_format"},
             roster  : RosterKinds,
             members : 0..MaxMembers] :
        /\ a.command = "reviews" => a.user # "none"
        /\ a.roster # "ok" => a.members = 0
        /\ a.user = "known" => (a.roster = "ok" => a.members >= 1) }

\* TeamLoader.load_team_members: the exception it raises, "ok" when it returns
LoadTeamMembers(roster) ==
    CASE roster = "ok"             -> "ok"
      [] roster = "missing_github" -> "ValueError"
      [] roster = "missing_name"   -> "ValueError"
      [] roster = "no_file"        -> "FileNotFoundError"

\* main without the final `except Exception`
MainHandlerNoCatchAll(exc) ==
    CASE exc = "TokenValidationError"    -> "token"
      [] exc = "RepositoryNotFoundError" -> "repository"
      [] exc = "ValueError"              -> "value"
      [] exc = "GitHubAPIError"          -> "api"
      [] OTHER                           -> "uncaught"

\* the except clauses of main, on the class of the exception raised
MainHandler(exc) ==
    CASE exc = "TokenValidationError"    -> "token"
      [] exc = "RepositoryNotFoundError" -> "repository"
      [] exc = "ValueError"              -> "value"
      [] exc = "GitHubAPIError"          -> "api"
      [] OTHER                           -> "unexpected"

MainIdle ==
    /\ mArgs = [command |-> "summary", user |-> "none", repo |-> "owner/repo",
                roster |-> "ok", members |-> 0]
    /\ mPc = "done"
    /\ mTodo = 0
    /\ mRaised = "none"
    /\ completed = {}
    /\ netCalls = <<>>
    /\ exitCode = -1

MainInit ==
    /\ mArgs \in ArgSets
    /\ mPc = "setup"
    /\ mTodo = 0
    /\ mRaised = "none"
    /\ completed = {}
    /\ netCalls = <<>>
    /\ exitCode = -1

\* an exception raised at the current position is taken to the handlers
Raise(exc) ==
    /\ mRaised' = exc
    /\ mPc' = "except"
    /\ UNCHANGED <<mArgs, mTodo, completed, exitCode>>

\* self.setup_github_client(): the identity request of validate_and_connect
SetupGithubClient ==
    /\ mPc = "setup"
    /\ netCalls' = Append(netCalls, "validate_and_connect")
    /\ \E o \in ValidateOutcomes :
          IF ValidateTokenBody(o) = "ok"
            THEN /\ mPc' = "repo"
                 /\ completed' = completed \cup {"setup"}
                 /\ UNCHANGED <<mArgs, mTodo, mRaised, exitCode>>
            ELSE Raise(ValidateTokenBody(o))
    /\ UNCHANGED <<retryVars, pageVars, remoteVars, fetchVars, summaryVars, exportVars>>

\* self.validate_repository(args.repo): the format check, then verify_repository
ValidateRepository ==
    /\ mPc = "repo"
    /\ IF mArgs.repo = "bad_format"
         THEN /\ Raise("ValueError")
              /\ UNCHANGED netCalls
         ELSE /\ netCalls' = Append(netCalls, "verify_repository")
              /\ \E found \in BOOLEAN :
                    IF found
                      THEN /\ mPc' = "load"
                           /\ completed' = completed \cup {"repo"}
                           /\ UNCHANGED <<mArgs, mTodo, mRaised, exitCode>>
                      ELSE Raise("RepositoryNotFoundError")
    /\ UNCHANGED <<retryVars, pageVars, remoteVars, fetchVars, summaryVars, exportVars>>

\* first statement of both subcommands: TeamLoader.load_team_members
LoadTeam ==
    /\ mPc = "load"
    /\ IF LoadTeamMembers(mArgs.roster) = "ok"
         THEN /\ mPc' = "lookup"
              /\ UNCHANGED <<mArgs, mTodo, mRaised, completed, exitCode>>
         ELSE Raise(LoadTeamMembers(mArgs.roster))
    /\ UNCHANGED netCalls
    /\ UNCHANGED <<retryVars, pageVars, remoteVars, fetchVars, summaryVars, exportVars>>

\* TeamLoader.get_team_member when --user is given; the summary of one
\* user has one member to process, the summary of the team all of them
GetTeamMember ==
    /\ mPc = "lookup"
    /\ IF mArgs.user = "unknown"
         THEN Raise("ValueError")
         ELSE /\ mPc' = IF mArgs.command = "reviews" THEN "fetch_reviews" ELSE "members"
              /\ mTodo' = IF mArgs.user = "known" THEN 1 ELSE mArgs.members
              /\ UNCHANGED <<mArgs, mRaised, completed, exitCode>>
    /\ UNCHANGED netCalls
    /\ UNCHANGED <<retryVars, pageVars, remoteVars, fetchVars, summaryVars, exportVars>>

\* for member in team_members: fetch_user_prs(...)
FetchUserPrs ==
    /\ mPc = "members"
    /\ mTodo > 0
    /\ netCalls' = Append(netCalls, "execute_query")
    /\ \E ok \in BOOLEAN :
          IF ok
            THEN /\ mPc' = "fetch_reviews"
                 /\ UNCHANGED <<mArgs, mTodo, mRaised, completed, exitCode>>
            ELSE Raise("GitHubAPIError")
    /\ UNCHANGED <<retryVars, pageVars, remoteVars, fetchVars, summaryVars, exportVars>>

\* fetch_user_reviews(...) of either subcommand; in the summary loop it is
\* followed by generate_member_summary and print_member_summary
FetchUserReviews ==
    /\ mPc = "fetch_reviews"
    /\ netCalls' = Append(netCalls, "execute_query")
    /\ \E o \in {"ok", "GitHubAPIError", "AttributeError"} :
          IF o = "ok"
            THEN /\ IF mArgs.command = "reviews"
                      THEN mPc' = "export" /\ UNCHANGED mTodo
                      ELSE mPc' = "members" /\ mTodo' = mTodo - 1
                 /\ UNCHANGED <<mArgs, mRaised, completed, exitCode>>
            ELSE Raise(o)
    /\ UNCHANGED <<retryVars, pageVars, remoteVars, fetchVars, summaryVars, exportVars>>

\* DataExporter.export_reviews_to_csv(reviews, args.output)
ExportCsv ==
    /\ mPc = "export"
    /\ \E written \in BOOLEAN :
          IF written
            THEN /\ mPc' = "return"
                 /\ completed' = completed \cup {"command"}
                 /\ UNCHANGED <<mArgs, mTodo, mRaised, exitCode>>
            ELSE Raise("OSError")
    /\ UNCHANGED netCalls
    /\ UNCHANGED <<retryVars, pageVars, remoteVars, fetchVars, summaryVars, exportVars>>

\* the summary loop is over: the team-wide statistics are printed
SummaryDone ==
    /\ mPc = "members"
    /\ mTodo = 0
    /\ mPc' = "return"
    /\ completed' = completed \cup {"command"}
    /\ UNCHANGED <<mArgs, mTodo, mRaised, netCalls, exitCode>>
    /\ UNCHANGED <<retryVars, pageVars, remoteVars, fetchVars, summaryVars, exportVars>>

\* return 0
MainReturn ==
    /\ mPc = "return"
    /\ exitCode' = 0
    /\ mPc' = "done"
    /\ UNCHANGED <<mArgs, mTodo, mRaised, completed, netCalls>>
    /\ UNCHANGED <<retryVars, pageVars, remoteVars, fetchVars, summaryVars, exportVars>>

\* the except clauses: each of them logs and returns 1
MainExcept ==
    /\ mPc = "except"
    /\ IF MainHandler(mRaised) = "uncaught"
         THEN mPc' = "escaped" /\ UNCHANGED exitCode
         ELSE mPc' = "done" /\ exitCode' = 1
    /\ UNCHANGED <<mArgs, mTodo, mRaised, completed, netCalls>>
    /\ UNCHANGED <<retryVars, pageVars, remoteVars, fetchVars, summaryVars, exportVars>>

(***************************************************************************)
(* ActivityAnalyzer.generate_member_summary                                *)
(***************************************************************************)
\* [:10] of top_prs and most_engaged
TopN == 10

\* a field of an API dict: missing from the dict, JSON null, or an integer
FieldAbsent == [kind |-> "absent", val |-> 0]
FieldNull == [kind |-> "null", val |-> 0]
FieldInt(n) == [kind |-> "int", val |-> n]
\* outcome of an expression whose evaluation raised
Raised == [kind |-> "raised", val |-> 0]

\* the `comments` / `reviews` field of a GitHubPR: missing, null, or an
\* object with a totalCount field
ObjAbsent == [kind |-> "absent", totalCount |-> FieldAbsent]
ObjNull == [kind |-> "null", totalCount |-> FieldAbsent]
Obj(f) == [kind |-> "object", totalCount |-> f]

\* the shapes of pull request the search can return (scores 5, 3, 9 for
\* the first three; the last three make a computation fail)
PrShapes ==
    { [additions |-> FieldInt(3), deletions |-> FieldInt(1), changedFiles |-> FieldInt(2),
       comments |-> Obj(FieldInt(5)), reviews |-> Obj(FieldInt(0))],
      [additions |-> FieldAbsent, deletions |-> FieldInt(2), changedFiles |-> FieldAbsent,
       comments |-> ObjAbsent, reviews |-> Obj(FieldInt(3))],
      [additions |-> FieldInt(1), deletions |-> FieldAbsent, changedFiles |-> FieldInt(1),
       comments |-> Obj(FieldAbsent), reviews |-> Obj(FieldInt(9))],
      [additions |-> FieldNull, deletions |-> FieldInt(1), changedFiles |-> FieldInt(1),
       comments |-> Obj(FieldInt(1)), reviews |-> Obj(FieldInt(1))],
      [additions |-> FieldInt(2), deletions |-> FieldInt(2), changedFiles |-> FieldInt(1),
       comments |-> ObjNull, reviews |-> Obj(FieldInt(1))],
      [additions |-> FieldInt(1), deletions |-> FieldInt(1), changedFiles |-> FieldAbsent,
       comments |-> Obj(FieldInt(2)), reviews |-> Obj(FieldNull)] }

\* the two shapes the long lists are made of
LongPrShapes ==
    { p \in PrShapes : p.additions = FieldInt(3) \/ p.additions = FieldAbsent }

\* the shapes of PRWithReviews: reviews holds the comment_count of each
\* Review; the last shape is an object whose total_comments is not a number
ReviewedShapes ==
    { [reviews |-> <<>>, total_comments |-> FieldInt(0)],
      [reviews |-> <<2>>, total_comments |-> FieldInt(2)],
      [reviews |-> <<0, 1>>, total_comments |-> FieldInt(1)],
      [reviews |-> <<1>>, total_comments |-> FieldNull] }

LongReviewedShapes ==
    { r \in ReviewedShapes : r.total_comments.kind = "int" /\ r.reviews # <<>> }

\* the elements of a list are distinct objects: the i-th carries identity i
NumberPrs(ps) ==
    [i \in DOMAIN ps |->
        [number |-> i, additions |-> ps[i].additions, deletions |-> ps[i].deletions,
         changedFiles |-> ps[i].changedFiles, comments |-> ps[i].comments,
         reviews |-> ps[i].reviews]]

NumberReviewed(rs) ==
    [i \in DOMAIN rs |->
        [url |-> i, reviews |-> rs[i].reviews, total_comments |-> rs[i].total_comments]]

\* pr.get(name, 0)
GetOrZero(f) == IF f.kind = "absent" THEN FieldInt(0) ELSE f

\* sum(...) of ints, which raises TypeError on a None
PySum(fs) ==
    IF \E i \in DOMAIN fs : fs[i].kind # "int"
      THEN Raised
      ELSE FieldInt(SumSeq([i \in DOMAIN fs |-> fs[i].val]))

\* p.get(name, {}).get('totalCount', 0): None has no .get
TotalCountOf(o) ==
    CASE o.kind = "absent" -> FieldInt(0)
      [] o.kind = "null"   -> Raised
      [] OTHER             -> GetOrZero(o.totalCount)

\* the key of top_prs: comments.totalCount + reviews.totalCount
DiscussionKey(p) ==
    LET c == TotalCountOf(p.comments)
        r == TotalCountOf(p.reviews)
    IN  IF c.kind = "int" /\ r.kind = "int" THEN FieldInt(c.val + r.val) ELSE Raised

\* an order in which elements of equal key change places
RanksBeforeReversed(kept, new) == kept > new

\* sorted(..., reverse=True) keeps an element ahead of a later one unless
\* the later one has the larger key
RanksBefore(kept, new) == kept >= new

\* the position of element i among the elements sorted so far
RECURSIVE InsertByKey(_, _, _)
InsertByKey(sorted, i, keys) ==
    IF sorted = <<>> THEN <<i>>
    ELSE IF RanksBefore(keys[Head(sorted)], keys[i])
      THEN <<Head(sorted)>> \o InsertByKey(Tail(sorted), i, keys)
      ELSE <<i>> \o sorted

\* the indices 1..n in the order sorted(key=..., reverse=True) puts them
RECURSIVE SortedReverse(_, _)
SortedReverse(keys, n) ==
    IF n = 0 THEN <<>> ELSE InsertByKey(SortedReverse(keys, n - 1), n, keys)

\* s[:n]
Take(s, n) == SubSeq(s, 1, Min(n, Len(s)))

\* sorted(items, key, reverse=True)[:10]; comparing None with a number
\* raises TypeError, and a list of one element is never compared
TopByKey(items, keys) ==
    IF \/ \E i \in DOMAIN keys : keys[i].kind = "raised"
       \/ Len(items) >= 2 /\ \E i \in DOMAIN keys : keys[i].kind # "int"
      THEN [kind |-> "raised", val |-> <<>>]
      ELSE LET order == Take(SortedReverse([i \in DOMAIN keys |-> keys[i].val], Len(items)), TopN)
           IN  [kind |-> "list", val |-> [k \in DOMAIN order |-> items[order[k]]]]

\* a count of the reviewed pull requests instead of their reviews
ReviewsGivenCountsPrs(reviews) == Len(reviews)

\* reviews_given=sum(len(pr.reviews) for pr in reviews)
ReviewsGiven(reviews) == SumSeq([j \in DOMAIN reviews |-> Len(reviews[j].reviews)])

\* a fallback that keeps nothing of the input
FallbackSummaryEmpty(prs, reviews) ==
    [authored_prs |-> 0, total_additions |-> 0, total_deletions |-> 0,
     total_files_changed |-> 0, reviews_given |-> 0, total_review_comments |-> 0,
     top_prs |-> <<>>, most_engaged_reviews |-> <<>>,
     all_prs |-> <<>>, all_reviewed_prs |-> <<>>, failed |-> TRUE]

\* the except branch: the dataclass defaults with all_prs and all_reviewed_prs
\* (`failed` records that the branch was taken; it is not a field)
FallbackSummary(prs, reviews) ==
    [authored_prs |-> 0, total_additions |-> 0, total_deletions |-> 0,
     total_files_changed |-> 0, reviews_given |-> 0, total_review_comments |-> 0,
     top_prs |-> <<>>, most_engaged_reviews |-> <<>>,
     all_prs |-> prs, all_reviewed_prs |-> reviews, failed |-> TRUE]

\* the body of generate_member_summary for a member with name and github
GenerateMemberSummary(prs, reviews) ==
    LET total_additions == PySum([i \in DOMAIN prs |-> GetOrZero(prs[i].additions)])
        total_deletions == PySum([i \in DOMAIN prs |-> GetOrZero(prs[i].deletions)])
        total_files     == PySum([i \in DOMAIN prs |-> GetOrZero(prs[i].changedFiles)])
        top_prs         == TopByKey(prs, [i \in DOMAIN prs |-> DiscussionKey(prs[i])])
        most_engaged    == TopByKey(reviews, [j \in DOMAIN reviews |-> reviews[j].total_comments])
        review_comments == PySum([j \in DOMAIN reviews |-> reviews[j].total_comments])
    IN  IF \/ total_additions.kind = "raised"
           \/ total_deletions.kind = "raised"
           \/ total_files.kind = "raised"
           \/ top_prs.kind = "raised"
           \/ most_engaged.kind = "raised"
           \/ review_comments.kind = "raised"
          THEN FallbackSummary(prs, reviews)
          ELSE [authored_prs |-> Len(prs),
                total_additions |-> total_additions.val,
                total_deletions |-> total_deletions.val,
                total_files_changed |-> total_files.val,
                reviews_given |-> ReviewsGiven(reviews),
                total_review_comments |-> review_comments.val,
                top_prs |-> top_prs.val,
                most_engaged_reviews |-> most_engaged.val,
                all_prs |-> prs, all_reviewed_prs |-> reviews, failed |-> FALSE]

NoSummary ==
    [authored_prs |-> 0, total_additions |-> 0, total_deletions |-> 0,
     total_files_changed |-> 0, reviews_given |-> 0, total_review_comments |-> 0,
     top_prs |-> <<>>, most_engaged_reviews |-> <<>>,
     all_prs |-> <<>>, all_reviewed_prs |-> <<>>, failed |-> FALSE]

SummaryIdle ==
    /\ sPrs = <<>>
    /\ sReviews = <<>>
    /\ sPc = "returned"
    /\ summary = NoSummary

SummaryInit ==
    \* short lists of every shape and long lists of two shapes, of pull
    \* requests and of reviewed pull requests
    /\ \/ /\ \E n \in 0..MaxPrs : \E ps \in [1..n -> PrShapes] : sPrs = NumberPrs(ps)
          /\ sReviews = <<>>
       \/ /\ \E n \in TopN..MaxRankLen : \E ps \in [1..n -> LongPrShapes] :
                sPrs = NumberPrs(ps)
          /\ sReviews = <<>>
       \/ /\ \E n \in 0..1 : \E ps \in [1..n -> PrShapes] : sPrs = NumberPrs(ps)
          /\ \/ \E m \in 0..MaxReviewed : \E rs \in [1..m -> ReviewedShapes] :
                   sReviews = NumberReviewed(rs)
             \/ \E m \in TopN..MaxRankLen : \E rs \in [1..m -> LongReviewedShapes] :
                   sReviews = NumberReviewed(rs)
    /\ sPc = "call"
    /\ summary = NoSummary

\* summary = ActivityAnalyzer.generate_member_summary(member, prs, reviews)
SummaryCall ==
    /\ sPc = "call"
    /\ summary' = GenerateMemberSummary(sPrs, sReviews)
    /\ sPc' = "returned"
    /\ UNCHANGED <<sPrs, sReviews>>
    /\ UNCHANGED <<retryVars, pageVars, remoteVars, fetchVars, mainVars, exportVars>>

(***************************************************************************)
(* DataExporter.export_reviews_to_csv                                      *)
(***************************************************************************)
\* texts are sequences of characters; the empty text is <<>>
Whitespace == {" "}

\* review bodies: empty, blank, padded, and one with an inner blank
ReviewBodies == {<<>>, <<" ">>, <<" ", "x", " ">>, <<"x", " ", "y">>}

\* the body of the k-th comment of a review
CommentBody(k) == IF k % 2 = 1 THEN <<"c", " ">> ELSE <<" ">>

\* Review objects: created_at is set when the review list is built
ExportReviewShapes ==
    [body : ReviewBodies,
     comments : {[k \in 1..n |-> CommentBody(k)] : n \in 0..MaxExportComments}]

\* the i-th review fetched was created at instant i
DatedReviews(rs) ==
    [i \in DOMAIN rs |-> [created_at |-> i, body |-> rs[i].body, comments |-> rs[i].comments]]

\* datetime.isoformat(): a text that is never empty; a comment is dated by
\* its review and its position
IsoFormat(instant) == <<instant>>
CommentIsoFormat(instant, k) == <<instant, k>>

RECURSIVE LStrip(_)
LStrip(s) == IF s # <<>> /\ Head(s) \in Whitespace THEN LStrip(Tail(s)) ELSE s

RECURSIVE RStrip(_)
RStrip(s) ==
    IF s # <<>> /\ s[Len(s)] \in Whitespace THEN RStrip(SubSeq(s, 1, Len(s) - 1)) ELSE s

\* a strip that removes nothing
StripNothing(s) == s

\* str.strip()
Strip(s) == RStrip(LStrip(s))

\* the rows written for one review: its own row if review.body.strip() is
\* non-empty, then one row per comment
ReviewRows(exported, review) ==
    (IF Strip(review.body) # <<>>
       THEN << [pr_url |-> exported.url, review_date |-> IsoFormat(review.created_at),
                review_body |-> Strip(review.body),
                comment_date |-> <<>>, comment_body |-> <<>>] >>
       ELSE <<>>)
    \o [k \in DOMAIN review.comments |->
          [pr_url |-> exported.url, review_date |-> IsoFormat(review.created_at),
           review_body |-> <<>>,
           comment_date |-> CommentIsoFormat(review.created_at, k),
           comment_body |-> Strip(review.comments[k])]]

\* for pr in reviews: for review in pr.reviews: ...
ExportRows(reviews) ==
    Concat([p \in DOMAIN reviews |->
        Concat([r \in DOMAIN reviews[p].reviews |->
            ReviewRows(reviews[p], reviews[p].reviews[r])])])

\* the first k of the reviews fetched belong to one pull request, the rest
\* to another
ExportInput(rs, k) ==
    << [url |-> "url_a", reviews |-> SubSeq(DatedReviews(rs), 1, k)],
       [url |-> "url_b", reviews |-> SubSeq(DatedReviews(rs), k + 1, Len(rs))] >>

ExportIdle ==
    /\ xReviews = <<>>
    /\ xPc = "written"
    /\ rows = <<>>

ExportInit ==
    /\ \E n \in 0..MaxExportReviews : \E rs \in [1..n -> ExportReviewShapes] :
          \E k \in 0..n : xReviews = ExportInput(rs, k)
    /\ xPc = "call"
    /\ rows = <<>>

\* DataExporter.export_reviews_to_csv(reviews, output_file): the file is
\* written, or opening it fails and the IOError is raised again
ExportReviewsToCsv ==
    /\ xPc = "call"
    /\ \E opened \in BOOLEAN :
          IF opened
            THEN xPc' = "written" /\ rows' = ExportRows(xReviews)
            ELSE xPc' = "raised" /\ rows' = <<>>
    /\ UNCHANGED xReviews
    /\ UNCHANGED <<retryVars, pageVars, remoteVars, fetchVars, mainVars, summaryVars>>

(***************************************************************************)
(* Properties of the retry policy                                          *)
(***************************************************************************)
RateLimitedUpTo(n) == \A i \in 1..n : script[i] = "tqe_ratelimit"

\* C1: with max_retries = 3, three rate-limit failures followed by a call
\* that would succeed end in that successful result, and the time slept is
\* at least retry_delay * (1 + 2 + 4).
C1_ThreeFailuresThenSuccess ==
    (/\ rPc = "done"
     /\ max_retries = DefaultMaxRetries
     /\ RateLimitedUpTo(3)
     /\ script[4] = "ok")
    => (/\ result = Returned
        /\ SumSeq(sleeps) >= retry_delay * (1 + 2 + 4))

NonRateLimitOutcomes == {"tqe_other", "http_other"}

\* C3: an error that is not rate-limit-classified is not retried: the
\* attempt made one call, no sleep follows it, and GitHubAPIError leaves
\* execute_query in the next step, whatever the number of retries used.
C3_OtherErrorNotRetried ==
    [][(rPc = "except" /\ script[calls] \in NonRateLimitOutcomes)
          => /\ calls = retries + 1
             /\ rPc' = "done"
             /\ result'.kind = "GitHubAPIError"
             /\ result' # FailedAfter(max_retries)
             /\ sleeps' = sleeps
             /\ calls' = calls
             /\ retries' = retries]_vars

C3_Witness ==
    /\ rPc = "done"
    /\ retries = 2
    /\ calls = 3
    /\ script[calls] \in NonRateLimitOutcomes
    /\ Len(sleeps) = 2
    /\ result.kind = "GitHubAPIError"
    /\ result.msg = "propagated"

RateLimitShapes == {"tqe_ratelimit", "http403_ratelimit"}

\* C4: both rate-limit shapes (the transport query error with the marker,
\* and the HTTP 403 with a rate-limit text) cause a backoff sleep and,
\* while attempts remain, a further attempt.
C4_BothShapesRetried ==
    [][(rPc = "except" /\ script[calls] \in RateLimitShapes)
          => /\ sleeps' = Append(sleeps, retry_delay * (2 ^ retries))
             /\ rPc' = "loop"]_vars

\* C14: validate_and_connect sends exactly one identity request and never
\* retries it, and every failure of it (status other than 200, transport
\* failure, malformed payload) leaves as TokenValidationError.
C14_ValidateOnceTokenError ==
    (wrappedFunc = "validate_and_connect" /\ rPc = "done")
    => /\ calls = 1
       /\ sleeps = <<>>
       /\ script[1] # "ok" => result.kind = "TokenValidationError"

(***************************************************************************)
(* Properties of the paginator                                             *)
(***************************************************************************)
\* the cursor of the i-th call of a walk that starts from the empty cursor
RECURSIVE WalkCursor(_)
WalkCursor(i) ==
    IF i = 1 THEN None ELSE pageTable[WalkCursor(i - 1)].next_cursor

\* index of the first page of the walk, from i on, whose has_next is false
RECURSIVE FirstStop(_, _)
FirstStop(i, limit) ==
    IF i > limit THEN limit + 1
    ELSE IF ~pageTable[WalkCursor(i)].has_next THEN i
    ELSE FirstStop(i + 1, limit)

ExpectedCalls == Min(max_pages, FirstStop(1, max_pages))

\* C5: query_func is invoked exactly min(max_pages, k) times, k the index
\* of the first page without a next page, and the result is the items of
\* exactly those pages in page order; the cap ends the walk without error.
C5_PageCount ==
    /\ Len(received) <= ExpectedCalls
    /\ pgPc = "done" =>
          /\ Len(received) = ExpectedCalls
          /\ results = Concat([i \in 1..ExpectedCalls |-> PageItems(WalkCursor(i))])

C5_Witness ==
    /\ pgPc = "done"
    /\ max_pages = 2
    /\ has_next_page
    /\ Len(received) = 2
    /\ Len(results) = 4

StrictlyAdvancing ==
    \A c \in Cursors : pageTable[c].has_next => pageTable[c].next_cursor > c

\* C6: the first call receives None, every later call the next_cursor the
\* call before it returned; when the cursors strictly advance no item is
\* returned twice.
C6_CursorChain ==
    /\ Len(received) >= 1 => received[1] = None
    /\ \A i \in 2..Len(received) : received[i] = returned[i - 1]
    /\ StrictlyAdvancing => NoDuplicates(results)

C6_Witness ==
    /\ pgPc = "done"
    /\ StrictlyAdvancing
    /\ Len(received) = 3
    /\ received = <<None, 1, 2>>
    /\ NoDuplicates(results)
    /\ Len(results) = 6

(***************************************************************************)
(* Properties of fetch_user_reviews                                        *)
(***************************************************************************)
CommentCounts(e) == [k \in 1..Len(e.reviews) |-> e.reviews[k].comment_count]

\* C7: at every point of a fetch_user_reviews run every PRWithReviews of
\* the accumulation map has total_comments equal to the sum of the
\* comment_count of its reviews, and comment_count is the API's totalCount
\* of the review, not the number of comments fetched.
C7_TotalComments ==
    \A i \in 1..Len(reviews_by_pr) :
        LET e == reviews_by_pr[i]
        IN  /\ e.total_comments = SumSeq(CommentCounts(e))
            /\ \A k \in 1..Len(e.reviews) :
                  e.reviews[k].comment_count =
                      prReviews[e.reviews[k].url][e.reviews[k].idx].totalCount

C7_Witness ==
    /\ fPc = "done"
    /\ \E i \in 1..Len(reviews_by_pr) :
          LET e == reviews_by_pr[i]
          IN  /\ Len(e.reviews) >= 2
              /\ e.total_comments = 3 * Len(e.reviews)
              /\ Len(e.reviews[1].comments) < e.reviews[1].comment_count
              /\ \E k \in 1..Len(prReviews[e.url]) :
                    /\ prReviews[e.url][k].author = U
                    /\ prReviews[e.url][k].createdAt = "bad"

\* C8: no pull request whose author is the user appears in the map that
\* fetch_user_reviews returns, also when another pull request of the same
\* search page is re-queried for further review pages.
C8_NoOwnPullRequest ==
    \A i \in 1..Len(reviews_by_pr) : prAuthor[reviews_by_pr[i].url] # U

\* C9: every follow-up query of _process_pr_reviews continues with the
\* pull request P the for loop is at: the reviews read from a sub-page are
\* reviews of P and go to the entry keyed by P's URL, whatever P's
\* position among the nodes of the outer page.
C9_FollowUpSamePr ==
    fPc = "add" =>
        /\ pr.url = curNodes[nodeIdx].url
        /\ \A k \in 1..Len(author_reviews) :
              author_reviews[k].url = curNodes[nodeIdx].url

UniqueUrls(rbp) ==
    \A i, j \in 1..Len(rbp) : rbp[i].url = rbp[j].url => i = j

IsPrefix(a, b) == Len(a) <= Len(b) /\ \A k \in 1..Len(a) : a[k] = b[k]

\* C10: the accumulation map holds at most one PRWithReviews per URL, and
\* when a URL is met again its entry is kept and only extended: the
\* reviews already recorded stay, new ones are appended behind them.
C10_OneEntryPerUrl ==
    /\ [] UniqueUrls(reviews_by_pr)
    /\ [][\A i \in 1..Len(reviews_by_pr) :
            /\ i <= Len(reviews_by_pr')
            /\ reviews_by_pr'[i].url = reviews_by_pr[i].url
            /\ IsPrefix(reviews_by_pr[i].reviews, reviews_by_pr'[i].reviews)]_vars

C10_Witness ==
    /\ fPc = "done"
    /\ Len(reviews_by_pr) = 2
    /\ \E i \in 1..Len(reviews_by_pr) :
          LET e == reviews_by_pr[i]
          IN  /\ Len(e.reviews) = 2
              /\ e.reviews[1].idx = 1
              /\ e.reviews[2].idx = 2
              /\ e.reviews[1].url = e.url
              /\ e.reviews[2].url = e.url

\* C11: one comment or review record with a malformed timestamp or a
\* null or missing field only makes that record be skipped: no exception
\* other than a failed query leaves fetch_user_reviews.
C11_MalformedRecordSkipped == fPc # "crashed"

\* C20: when the outer search returns each pull request once, no review
\* of the remote is recorded twice, neither twice in one PRWithReviews nor
\* in two entries, also when a pull request needs several review sub-pages.
C20_NoReviewTwice ==
    NoDuplicates(searchList) =>
        \A i, j \in 1..Len(reviews_by_pr) :
            \A k \in 1..Len(reviews_by_pr[i].reviews) :
                \A l \in 1..Len(reviews_by_pr[j].reviews) :
                    (/\ reviews_by_pr[i].reviews[k].url = reviews_by_pr[j].reviews[l].url
                     /\ reviews_by_pr[i].reviews[k].idx = reviews_by_pr[j].reviews[l].idx)
                    => (i = j /\ k = l)

\* C21: every PRWithReviews of the list fetch_user_reviews returns has at
\* least one review, also when the only reviews of the user on the pull
\* request were skipped as malformed.
C21_NoEmptyEntry ==
    fPc = "done" =>
        \A i \in 1..Len(reviews_by_pr) : Len(reviews_by_pr[i].reviews) >= 1

\* fetch_user_reviews has returned or an exception has left it
FetchTerminated == fPc \in {"done", "raised", "crashed"}

\* review pages of a pull request after its first one
FurtherReviewPages(url) ==
    LET n == Len(prReviews[url])
    IN  IF n = 0 THEN 0 ELSE ((n + ReviewPageSize - 1) \div ReviewPageSize) - 1

\* the pull requests of the outer pages fetched so far
VisitedPrs ==
    SubSeq(searchList, 1, Min(Len(searchList), Len(received) * OuterPageSize))

\* C22: fetch_user_reviews terminates on every finite remote whose queries
\* succeed or fail: the inner review-page loop ends for each pull request,
\* the outer walk takes at most 10 pages, and the execute_query calls number
\* at most 10 plus the further review pages of the visited pull requests.
C22_TerminatesWithinBound ==
    /\ <>FetchTerminated
    /\ [](Len(received) <= ReviewSearchMaxPages)
    /\ [](queries <= ReviewSearchMaxPages
                     + SumSeq([i \in DOMAIN VisitedPrs |-> FurtherReviewPages(VisitedPrs[i])]))

(***************************************************************************)
(* Properties of main                                                      *)
(***************************************************************************)
\* C12: when --user is not a github username of the roster, main returns
\* 1 and the run has made no network call.
C12_UnknownUserNoNetwork ==
    (mPc = "done" /\ mArgs.roster = "ok" /\ mArgs.user = "unknown")
    => (exitCode = 1 /\ netCalls = <<>>)

\* C13: when a roster entry lacks the github field, the run ends with the
\* load-time ValueError (exit code 1) before any call to the remote API.
C13_RosterCheckedFirst ==
    (mPc = "done" /\ mArgs.roster = "missing_github")
    => (exitCode = 1 /\ mRaised = "ValueError" /\ netCalls = <<>>)

\* C18: main returns 0 exactly when client setup, repository verification
\* and the subcommand all completed without an exception, and 1 in every
\* other case; no exception leaves main.
C18_ExitCode ==
    /\ mPc # "escaped"
    /\ mPc = "done" =>
          /\ exitCode \in {0, 1}
          /\ exitCode = 0 <=> completed = {"setup", "repo", "command"}
          /\ exitCode = 0 <=> mRaised = "none"

C18_Witness ==
    /\ mPc = "done"
    /\ exitCode = 1
    /\ mRaised = "AttributeError"
    /\ completed = {"setup", "repo"}

(***************************************************************************)
(* Properties of the member summary                                        *)
(***************************************************************************)
\* the score a pull request is ranked by, for the records without a null
Score(p) ==
    (IF p.comments.kind = "object" /\ p.comments.totalCount.kind = "int"
       THEN p.comments.totalCount.val ELSE 0)
    + (IF p.reviews.kind = "object" /\ p.reviews.totalCount.kind = "int"
         THEN p.reviews.totalCount.val ELSE 0)

\* `top` is a stable descending selection of at most TopN elements of `all`,
\* where id gives the input position of an element and sc its score
IsStableTop(top, all, id, sc) ==
    /\ Len(top) = Min(TopN, Len(all))
    /\ \A k \in DOMAIN top : id[k] \in DOMAIN all /\ top[k] = all[id[k]]
    /\ \A k, l \in DOMAIN top : k < l =>
          /\ sc[id[k]] >= sc[id[l]]
          /\ sc[id[k]] = sc[id[l]] => id[k] < id[l]
    /\ \A i \in DOMAIN all : (\A k \in DOMAIN top : id[k] # i) =>
          \A k \in DOMAIN top : sc[i] <= sc[id[k]]

C15_WitnessExample ==
    /\ sPc = "returned"
    /\ ~summary.failed
    /\ [i \in DOMAIN sPrs |-> Score(sPrs[i])] = <<5, 5, 3, 9>>
    /\ Len(summary.top_prs) = 4

ComputationFails(prs, reviews) ==
    \/ \E i \in DOMAIN prs :
          \/ prs[i].additions.kind = "null"
          \/ prs[i].deletions.kind = "null"
          \/ prs[i].changedFiles.kind = "null"
          \/ prs[i].comments.kind = "null"
          \/ prs[i].reviews.kind = "null"
          \/ prs[i].comments.totalCount.kind = "null"
          \/ prs[i].reviews.totalCount.kind = "null"
    \/ \E j \in DOMAIN reviews : reviews[j].total_comments.kind # "int"

\* C16: generate_member_summary always returns; when a computation in it
\* fails, the statistics are zero, the top lists are empty and all_prs and
\* all_reviewed_prs are the arguments.
C16_FallbackSummary ==
    (sPc = "returned" /\ ComputationFails(sPrs, sReviews)) =>
        /\ summary.authored_prs = 0
        /\ summary.total_additions = 0
        /\ summary.total_deletions = 0
        /\ summary.total_files_changed = 0
        /\ summary.reviews_given = 0
        /\ summary.total_review_comments = 0
        /\ summary.top_prs = <<>>
        /\ summary.most_engaged_reviews = <<>>
        /\ summary.all_prs = sPrs
        /\ summary.all_reviewed_prs = sReviews

C16_Witness ==
    /\ sPc = "returned"
    /\ Len(sPrs) >= 2
    /\ \E i \in DOMAIN sPrs : sPrs[i].additions.kind = "null"
    /\ summary.all_prs = sPrs
    /\ summary.authored_prs = 0

\* the sum of one numeric field over the records, a missing one counting 0
FieldSum(prs, name) ==
    SumSeq([i \in DOMAIN prs |-> IF prs[i][name].kind = "int" THEN prs[i][name].val ELSE 0])

NumericFieldsPresentOrAbsent(prs) ==
    \A i \in DOMAIN prs :
        /\ prs[i].additions.kind \in {"absent", "int"}
        /\ prs[i].deletions.kind \in {"absent", "int"}
        /\ prs[i].changedFiles.kind \in {"absent", "int"}

SumsAndCounts ==
    /\ summary.total_additions = FieldSum(sPrs, "additions")
    /\ summary.total_deletions = FieldSum(sPrs, "deletions")
    /\ summary.total_files_changed = FieldSum(sPrs, "changedFiles")
    /\ summary.authored_prs = Len(sPrs)
    /\ summary.reviews_given = Len(Concat([j \in DOMAIN sReviews |-> sReviews[j].reviews]))

\* C19 as stated: whenever additions, deletions and changedFiles are each
\* absent or an integer, the three totals are the sums with absent as zero,
\* authored_prs is the number of records and reviews_given the number of
\* Review records.
C19_SumsAsStated ==
    (sPc = "returned" /\ NumericFieldsPresentOrAbsent(sPrs)) => SumsAndCounts

\* C19 amended: the same, for arguments on which no other computation of the
\* function fails either (comments and reviews are absent or objects whose
\* totalCount is absent or an integer, every total_comments is an integer).
C19_SumsWhenNothingFails ==
    (sPc = "returned" /\ NumericFieldsPresentOrAbsent(sPrs)
        /\ ~ComputationFails(sPrs, sReviews)) => SumsAndCounts

C19_Witness ==
    /\ sPc = "returned"
    /\ ~summary.failed
    /\ \E i \in DOMAIN sPrs : sPrs[i].additions.kind = "absent"
    /\ Len(sReviews) = 2
    /\ summary.reviews_given = 3
    /\ summary.total_deletions > 0

(***************************************************************************)
(* Properties of the CSV export                                            *)
(***************************************************************************)
\* the text has a character that is not whitespace
NonBlank(body) == \E i \in DOMAIN body : body[i] \notin Whitespace

\* all reviews of the export, in pull request order then review order
AllExported == Concat([p \in DOMAIN xReviews |-> xReviews[p].reviews])

\* position of a pull request in the export
PrIndex(url) == CHOOSE p \in DOMAIN xReviews : xReviews[p].url = url

\* row a comes before row b in (pull request, review, own row first) order
RowBefore(a, b) ==
    \/ PrIndex(a.pr_url) < PrIndex(b.pr_url)
    \/ /\ a.pr_url = b.pr_url
       /\ \/ a.review_date[1] < b.review_date[1]
          \/ /\ a.review_date = b.review_date
             /\ Len(b.comment_date) = 2
             /\ (Len(a.comment_date) = 2 => a.comment_date[2] < b.comment_date[2])

\* C17: the rows written are one per review with a non-blank body plus one
\* per comment, in pull request order, then review order, a review's own row
\* before its comment rows; review rows have no comment fields, comment rows
\* no review_body; an empty review without comments has no row.
C17_ExportRows ==
    xPc = "written" =>
        /\ Len(rows) =
              Cardinality({i \in DOMAIN AllExported : NonBlank(AllExported[i].body)})
              + Len(Concat([i \in DOMAIN AllExported |-> AllExported[i].comments]))
        /\ \A i, j \in DOMAIN rows : i < j => RowBefore(rows[i], rows[j])
        /\ \A i \in DOMAIN rows :
              IF rows[i].comment_date = <<>>
                THEN rows[i].comment_body = <<>> /\ NonBlank(rows[i].review_body)
                ELSE rows[i].review_body = <<>>
        /\ \A p \in DOMAIN xReviews : \A r \in DOMAIN xReviews[p].reviews :
              LET review == xReviews[p].reviews[r]
              IN  (~NonBlank(review.body) /\ review.comments = <<>>)
                    => \A i \in DOMAIN rows : rows[i].review_date # <<review.created_at>>

\* one review with a body and two comments, one blank review without
\* comments: three rows
C17_Witness ==
    /\ xPc = "written"
    /\ Len(AllExported) = 2
    /\ NonBlank(AllExported[1].body) /\ Len(AllExported[1].comments) = 2
    /\ AllExported[2].body = <<" ">> /\ AllExported[2].comments = <<>>
    /\ Len(rows) = 3

(***************************************************************************)
(* Specifications                                                          *)
(***************************************************************************)
InitRetry == RetryInit /\ PageIdle /\ FetchIdle /\ MainIdle /\ SummaryIdle /\ ExportIdle
NextRetry == RetryCall \/ RetryBackoff \/ RetryRaise \/ RetryExhausted
SpecRetry == InitRetry /\ [][NextRetry]_vars

InitPaginate == RetryIdle /\ PageInit /\ FetchIdle /\ MainIdle /\ SummaryIdle /\ ExportIdle
NextPaginate == PaginateStep \/ PaginateReturn
SpecPaginate == InitPaginate /\ [][NextPaginate]_vars

InitReviews == RetryIdle /\ FetchInit /\ MainIdle /\ SummaryIdle /\ ExportIdle
NextReviews ==
    \/ FetchQueryPage
    \/ ProcessPrReviews
    \/ InnerReviewPage
    \/ AddReview
    \/ ReviewPageInfo
    \/ ProcessPrDone
    \/ QueryPageReturn
    \/ FetchReturn
    \/ QueryRaises
SpecReviews == InitReviews /\ [][NextReviews]_vars

InitReviewsMalformed == RetryIdle /\ FetchInitMalformed /\ MainIdle /\ SummaryIdle /\ ExportIdle
SpecReviewsMalformed == InitReviewsMalformed /\ [][NextReviews]_vars

\* one thread runs the fetch: its next statement is always executed
InitReviewsDeep == RetryIdle /\ FetchInitDeep /\ MainIdle /\ SummaryIdle /\ ExportIdle
SpecReviewsDeep == InitReviewsDeep /\ [][NextReviews]_vars /\ WF_vars(NextReviews)

InitMain == RetryIdle /\ PageIdle /\ FetchIdle /\ MainInit /\ SummaryIdle /\ ExportIdle
NextMain ==
    \/ SetupGithubClient
    \/ ValidateRepository
    \/ LoadTeam
    \/ GetTeamMember
    \/ FetchUserPrs
    \/ FetchUserReviews
    \/ ExportCsv
    \/ SummaryDone
    \/ MainReturn
    \/ MainExcept
SpecMain == InitMain /\ [][NextMain]_vars

InitSummary == RetryIdle /\ PageIdle /\ FetchIdle /\ MainIdle /\ SummaryInit /\ ExportIdle
NextSummary == SummaryCall
SpecSummary == InitSummary /\ [][NextSummary]_vars

InitExport == RetryIdle /\ PageIdle /\ FetchIdle /\ MainIdle /\ SummaryIdle /\ ExportInit
NextExport == ExportReviewsToCsv
SpecExport == InitExport /\ [][NextExport]_vars

Init ==
    \/ InitRetry \/ InitPaginate \/ InitReviewsMalformed
    \/ InitMain \/ InitSummary \/ InitExport
Next == NextRetry \/ NextPaginate \/ NextReviews \/ NextMain \/ NextSummary \/ NextExport
Spec == Init /\ [][Next]_vars

====
